---- MODULE Spec2Model ----
(***************************************************************************)
(* The persistence layer of the language-learning bot (src/database.py)    *)
(* and the start of its process (src/main.py).                             *)
(*                                                                         *)
(* Every function of database.py opens a connection of its own            *)
(* (aiosqlite.connect), executes one or more statements and commits.  The  *)
(* sqlite3 module opens a transaction before the first INSERT / UPDATE /   *)
(* DELETE of a connection, so the statements of one function run in one    *)
(* transaction: they are applied to the writer's private copy (work) and   *)
(* become visible to every other connection at commit.  SQLite admits one  *)
(* write transaction at a time (lock).  Leaving the "async with" block     *)
(* without reaching commit (an exception, a cancelled task, a crash)       *)
(* closes the connection and rolls the transaction back.                   *)
(*                                                                         *)
(* Time is counted in ticks, TicksPerDay ticks to the day.  A call is one  *)
(* round trip to the store and is short against a tick: the clock advances *)
(* between calls.                                                          *)
(***************************************************************************)
EXTENDS Integers, Sequences, FiniteSets, TLC

\* ------------------------------------------------------------------------
\* Bounds of the model
\* ------------------------------------------------------------------------
\* The calls made in one run of each specification.
MaxCalls == 3
PremiumCalls == 3
CreateCalls == 3
CounterCalls == 3
CatalogCalls == 4
QuizCalls == 4
ActiveCalls == 2
AccountCalls == 3
BoardCalls == 1
SectionCalls == 3
ReferralCalls == 3
StartupCalls == 3
AppendCalls == 4

ContentCalls == 2

StatsCalls == 4

CountCalls == 3

AbsentCalls == 3
\* get_leaderboard is called with a limit of -1..MaxLimit.
MaxLimit == 3
\* The clock stops at MaxTime ticks; a day has TicksPerDay ticks.
MaxTime == 3
TicksPerDay == 2
\* activate_premium is called with 0..MaxDays days.
MaxDays == 2
\* secrets.randbelow draws from 0..CodeSpace-1.
CodeSpace == 2

UserIds == {1, 2}
Procs == {1, 2}
Durations == 0..MaxDays
Codes == 0..(CodeSpace - 1)
\* Ids passed for a section, subsection, content item or quiz; 0 is the
\* "unassigned" sentinel of content.section_id and content.subsection_id.
ParentIds == {0, 1}
RowIds == {1}
Points == {1, 2}

\* SQL NULL in an integer column (users.referred_by).
NullId == -1
\* SQL NULL / Python None in a text column.
Null == << >>

VARIABLES now, db, work, lock, pc, call, ret, budget, lastact, applied

vars == <<now, db, work, lock, pc, call, ret, budget, lastact, applied>>

\* ------------------------------------------------------------------------
\* Tables: a table is a function from the primary keys of its rows to rows.
\* ------------------------------------------------------------------------
EmptyTable == [k \in {} |-> 0]

Put(t, k, row) == [x \in (DOMAIN t) \cup {k} |-> IF x = k THEN row ELSE t[x]]

Keep(t, keys) == [x \in keys |-> t[x]]

TableNames ==
    {"sections", "subsections", "content", "quizzes", "questions",
     "quiz_attempts", "premium_content", "referrals"}

\* The tables of the schema, in the order init_db creates them.
Schema ==
    <<"users", "sections", "subsections", "content", "quizzes", "questions",
      "quiz_attempts", "user_progress", "premium_content", "referrals">>

\* The store right after init_db on a fresh file: the tables of the schema,
\* all empty (the rows of user_progress are not modelled).  seq is sqlite_sequence, the last AUTOINCREMENT id handed out
\* per table; tables is the set of the tables that exist.
EmptyStore ==
    [tables |-> {Schema[i] : i \in DOMAIN Schema},
     users |-> EmptyTable,
     sections |-> EmptyTable,
     subsections |-> EmptyTable,
     content |-> EmptyTable,
     quizzes |-> EmptyTable,
     questions |-> EmptyTable,
     quiz_attempts |-> EmptyTable,
     referrals |-> EmptyTable,
     premium_content |-> EmptyTable,
     seq |-> [n \in TableNames |-> 0]]

\* PRAGMA foreign_keys is a setting of the connection it is executed on and
\* is off in every new connection.  init_db sets it on the connection it
\* opens and closes; no other function of database.py sets it.
foreign_keys(op) == op = "init_db"

\* ------------------------------------------------------------------------
\* datetime
\* ------------------------------------------------------------------------
timedelta(days) == days * TicksPerDay

\* datetime.isoformat(): the text "<date>T<time>".
isoformat(t) == <<t \div TicksPerDay, t % TicksPerDay>>

\* datetime.fromisoformat(): the datetime of a text in that format; any
\* other text raises ValueError, None raises TypeError.
CanParse(s) == Len(s) = 2 /\ s[1] \in Int /\ s[2] \in 0..(TicksPerDay - 1)

fromisoformat(s) == s[1] * TicksPerDay + s[2]

\* ------------------------------------------------------------------------
\* users
\* ------------------------------------------------------------------------
\* f"REF{n:06d}"
referral_code(n) == <<"REF", n>>

Profiles ==
    {[username |-> Null, first_name |-> <<"Ann">>, last_name |-> Null,
      referred_by |-> NullId],
     [username |-> <<"bob">>, first_name |-> <<"Bob">>, last_name |-> <<"Lee">>,
      referred_by |-> 1]}

\* Python's "x or ''"
OrEmpty(s) == IF s = Null THEN <<"">> ELSE s

\* The row create_user inserts: the six bound columns and the defaults of
\* the others.
NewUser(c, t) ==
    [username |-> OrEmpty(c.username),
     first_name |-> c.first_name,
     last_name |-> OrEmpty(c.last_name),
     is_premium |-> FALSE,
     premium_expires_at |-> Null,
     referral_code |-> c.referral_code,
     referred_by |-> c.referred_by,
     created_at |-> t,
     last_activity |-> t,
     total_sessions |-> 0,
     words_learned |-> 0,
     quiz_score_total |-> 0,
     quiz_attempts |-> 0,
     rating_score |-> 0,
     referral_count |-> 0]

\* A conflict of the new row with the PRIMARY KEY or with UNIQUE(referral_code).
UserConflict(users, c) ==
    \/ c.user_id \in DOMAIN users
    \/ \E u \in DOMAIN users : users[u].referral_code = c.referral_code

\* INSERT OR REPLACE: the conflicting rows are deleted and the new row inserted.
create_user_replace(users, c, t) ==
    Put(Keep(users, {u \in DOMAIN users :
                        /\ u # c.user_id
                        /\ users[u].referral_code # c.referral_code}),
        c.user_id, NewUser(c, t))

\* The insert into a users table whose referral_code is not UNIQUE: only a
\* conflict of the primary key is ignored.
create_user_without_unique(users, c, t) ==
    IF c.user_id \in DOMAIN users THEN users
    ELSE Put(users, c.user_id, NewUser(c, t))

\* INSERT OR IGNORE INTO users: on a conflict the statement does nothing.
create_user_insert(users, c, t) ==
    IF UserConflict(users, c) THEN users ELSE Put(users, c.user_id, NewUser(c, t))

\* UPDATE users SET is_premium = TRUE, premium_expires_at = ? (the row that
\* matches WHERE user_id = ?)
activate_premium_expiry_only(row, expires_at) ==
    [row EXCEPT !.premium_expires_at = expires_at]

\* An activation that never shortens: the later of the stored and the new
\* expiry is kept.
activate_premium_keep_later(row, expires_at) ==
    IF /\ row.premium_expires_at # Null
       /\ fromisoformat(row.premium_expires_at) > fromisoformat(expires_at)
    THEN [row EXCEPT !.is_premium = TRUE]
    ELSE [row EXCEPT !.is_premium = TRUE, !.premium_expires_at = expires_at]

\* ... SET is_premium = TRUE alone.
activate_premium_flag_only(row, expires_at) == [row EXCEPT !.is_premium = TRUE]

activate_premium_set(row, expires_at) ==
    [row EXCEPT !.is_premium = TRUE, !.premium_expires_at = expires_at]

\* UPDATE users SET is_premium = FALSE, premium_expires_at = NULL
revoke_premium_nowrite(row) == row

revoke_premium_set(row) ==
    [row EXCEPT !.is_premium = FALSE, !.premium_expires_at = Null]

\* is_premium_active with "<=" in place of "<": active at the expiry itself.
is_premium_active_inclusive(d, u, t) ==
    IF u \notin DOMAIN d.users \/ ~d.users[u].is_premium THEN FALSE
    ELSE IF d.users[u].premium_expires_at = Null THEN FALSE
    ELSE IF ~CanParse(d.users[u].premium_expires_at) THEN FALSE
    ELSE t <= fromisoformat(d.users[u].premium_expires_at)

\* is_premium_active(user_id), evaluated on the committed store d at time t.
is_premium_active(d, u, t) ==
    IF u \notin DOMAIN d.users \/ ~d.users[u].is_premium THEN FALSE
    ELSE IF d.users[u].premium_expires_at = Null THEN FALSE
    ELSE IF ~CanParse(d.users[u].premium_expires_at) THEN FALSE
    ELSE t < fromisoformat(d.users[u].premium_expires_at)

\* Relative updates of the counters of one row: counter = counter + ?.
set_rating(row, points) == [row EXCEPT !.rating_score = points]

add_rating(row, points) == [row EXCEPT !.rating_score = @ + points]

add_words_learned(row, count) == [row EXCEPT !.words_learned = @ + count]

\* ... total_sessions = total_sessions + 2
touch_activity_twice(row, t) ==
    [row EXCEPT !.last_activity = t, !.total_sessions = @ + 2]

touch_activity(row, t) ==
    [row EXCEPT !.last_activity = t, !.total_sessions = @ + 1]

add_referral_count(row) == [row EXCEPT !.referral_count = @ + 1]

\* UPDATE users SET referral_count = 0
zero_referral_count(row) == [row EXCEPT !.referral_count = 0]

add_quiz_stats_swapped(row, score) ==
    [row EXCEPT !.quiz_score_total = @ + 1, !.quiz_attempts = @ + score]

add_quiz_stats(row, score) ==
    [row EXCEPT !.quiz_score_total = @ + score, !.quiz_attempts = @ + 1]

\* The row of user u after the UPDATE of call c; UPDATE ... WHERE user_id = ?
\* changes the one row that matches, and nothing when the id is unknown.
UpdatedRow(c, row, t) ==
    CASE c.op = "activate_premium" -> activate_premium_set(row, c.expires_at)
      [] c.op = "revoke_premium" -> revoke_premium_set(row)
      [] c.op = "update_user_rating" -> add_rating(row, c.points)
      [] c.op = "update_words_learned" -> add_words_learned(row, c.count)
      [] c.op = "update_user_activity" -> touch_activity(row, t)
      [] c.op = "update_referral_count" -> add_referral_count(row)
      [] c.op = "reset_referral_count" -> zero_referral_count(row)
      [] c.op = "record_quiz_attempt" -> add_quiz_stats(row, c.score)

upsert_users(d, c, t) ==
    LET blank == NewUser([username |-> Null, first_name |-> <<"">>,
                          last_name |-> Null, referred_by |-> NullId,
                          referral_code |-> referral_code(0)], t)
        old == IF c.user_id \in DOMAIN d.users THEN d.users[c.user_id]
               ELSE blank
    IN  [d EXCEPT !.users = Put(d.users, c.user_id, UpdatedRow(c, old, t))]

UpdateUsers(d, c, t) ==
    [d EXCEPT !.users =
        [u \in DOMAIN d.users |->
            IF u = c.user_id THEN UpdatedRow(c, d.users[u], t) ELSE d.users[u]]]

\* ------------------------------------------------------------------------
\* sections, subsections, content, quizzes, questions, attempts, referrals
\* (the columns the operations select on; names, descriptions and file
\* references are opaque payload)
\* ------------------------------------------------------------------------
\* INSERT into a table with an AUTOINCREMENT key: the new id is one more than
\* the largest the table ever handed out.
Insert(d, tbl, row) ==
    [d EXCEPT ![tbl] = Put(d[tbl], d.seq[tbl] + 1, row),
              !.seq = [@ EXCEPT ![tbl] = @ + 1]]

\* DELETE FROM tbl WHERE <gone(row id)>
Delete(d, tbl, gone) ==
    [d EXCEPT ![tbl] = Keep(d[tbl], (DOMAIN d[tbl]) \ gone)]

ContentOfSection(d, s) == {x \in DOMAIN d.content : d.content[x].section_id = s}

ContentOfSubsection(d, x) ==
    {y \in DOMAIN d.content : d.content[y].subsection_id = x}

SubsectionsOf(d, s) ==
    {x \in DOMAIN d.subsections : d.subsections[x].section_id = s}

QuestionsOf(d, q) == {x \in DOMAIN d.questions : d.questions[x].quiz_id = q}

AttemptsOf(d, q) ==
    {x \in DOMAIN d.quiz_attempts : d.quiz_attempts[x].quiz_id = q}

\* Statement k of delete_section.
delete_section_stmt(d, c, k) ==
    CASE k = 1 -> Delete(d, "content", ContentOfSection(d, c.section_id))
      [] k = 2 -> Delete(d, "subsections", SubsectionsOf(d, c.section_id))
      [] k = 3 -> Delete(d, "sections", {c.section_id})

\* delete_subsection with a first statement that has no WHERE clause.
delete_subsection_all_content(d, c, k) ==
    CASE k = 1 -> Delete(d, "content", DOMAIN d.content)
      [] k = 2 -> Delete(d, "subsections", {c.subsection_id})

\* Statement k of delete_subsection.
delete_subsection_stmt(d, c, k) ==
    CASE k = 1 -> Delete(d, "content", ContentOfSubsection(d, c.subsection_id))
      [] k = 2 -> Delete(d, "subsections", {c.subsection_id})

\* delete_quiz with a first statement that removes the attempts as well.
delete_quiz_with_attempts(d, c, k) ==
    CASE k = 1 -> Delete(Delete(d, "questions", QuestionsOf(d, c.quiz_id)),
                         "quiz_attempts", AttemptsOf(d, c.quiz_id))
      [] k = 2 -> Delete(d, "quizzes", {c.quiz_id})

\* Statement k of delete_quiz.
delete_quiz_stmt(d, c, k) ==
    CASE k = 1 -> Delete(d, "questions", QuestionsOf(d, c.quiz_id))
      [] k = 2 -> Delete(d, "quizzes", {c.quiz_id})

\* Statement k of record_quiz_attempt.
record_quiz_attempt_stmt(d, c, k, t) ==
    CASE k = 1 -> Insert(d, "quiz_attempts",
                         [user_id |-> c.user_id, quiz_id |-> c.quiz_id,
                          score |-> c.score,
                          total_questions |-> c.total_questions])
      [] k = 2 -> UpdateUsers(d, c, t)

\* The statements a function executes before it commits.
NStmts(op) ==
    CASE op = "delete_section" -> 3
      [] op \in {"delete_subsection", "delete_quiz", "record_quiz_attempt"} -> 2
      [] OTHER -> 1

\* Statement k of call c, applied to the store d at time t.
Stmt(c, k, d, t) ==
    CASE c.op = "create_user" ->
            [d EXCEPT !.users = create_user_insert(d.users, c, t)]
      [] c.op \in {"activate_premium", "revoke_premium", "update_user_rating",
                   "update_words_learned", "update_user_activity",
                   "update_referral_count", "reset_referral_count"} ->
            UpdateUsers(d, c, t)
      [] c.op = "create_section" ->
            Insert(d, "sections", [language |-> c.language,
                                   is_premium |-> c.is_premium,
                                   created_at |-> t])
      [] c.op = "create_subsection" ->
            Insert(d, "subsections", [section_id |-> c.section_id,
                                      created_at |-> t])
      [] c.op = "add_content" ->
            Insert(d, "content", [section_id |-> c.section_id,
                                  subsection_id |-> c.subsection_id])
      [] c.op = "delete_content" -> Delete(d, "content", {c.content_id})
      [] c.op = "delete_section" -> delete_section_stmt(d, c, k)
      [] c.op = "delete_subsection" -> delete_subsection_stmt(d, c, k)
      [] c.op = "create_quiz" -> Insert(d, "quizzes", [language |-> c.language])
      [] c.op = "add_question" ->
            Insert(d, "questions", [quiz_id |-> c.quiz_id])
      [] c.op = "delete_quiz" -> delete_quiz_stmt(d, c, k)
      [] c.op = "record_quiz_attempt" -> record_quiz_attempt_stmt(d, c, k, t)
      [] c.op = "add_referral" ->
            Insert(d, "referrals", [referrer_id |-> c.referrer_id,
                                    referred_id |-> c.referred_id])
      [] c.op = "add_premium_content" ->
            Insert(d, "premium_content", [section_type |-> c.section_type,
                                          file_type |-> c.file_type])
      [] c.op = "delete_premium_content" ->
            Delete(d, "premium_content", {c.content_id})

\* The parent rows the row inserted by statement k of call c refers to are
\* missing: what a connection with foreign_keys = ON rejects.
MissingParent(c, k, d) ==
    CASE c.op = "create_subsection" -> c.section_id \notin DOMAIN d.sections
      [] c.op = "add_content" ->
            \/ c.section_id \notin DOMAIN d.sections
            \/ c.subsection_id \notin DOMAIN d.subsections
      [] c.op = "add_question" -> c.quiz_id \notin DOMAIN d.quizzes
      [] c.op = "record_quiz_attempt" ->
            /\ k = 1
            /\ \/ c.user_id \notin DOMAIN d.users
               \/ c.quiz_id \notin DOMAIN d.quizzes
      [] c.op = "add_referral" ->
            \/ c.referrer_id \notin DOMAIN d.users
            \/ c.referred_id \notin DOMAIN d.users
      [] OTHER -> FALSE

\* The column constraints of premium_content.  A column value is Null or
\* <<v>>.  A CHECK constraint rejects a row only when its expression is
\* false: on NULL the expression is NULL and the row passes, so NOT NULL is
\* what rejects a missing section_type.  IN compares text byte by byte.
SectionTypes == {"topik1", "topik2", "jlpt"}

FileTypes == {"photo", "video", "audio", "document", "music", "text"}

not_null(v) == v # Null

unchecked(v) == TRUE

check_section_type(v) == v = Null \/ v[1] \in SectionTypes

check_file_type(v) == v = Null \/ v[1] \in FileTypes

\* Statement k of call c breaks a NOT NULL or CHECK constraint of the
\* table it writes: enforced on every connection, whatever its pragmas.
ConstraintFailed(c, k) ==
    /\ c.op = "add_premium_content"
    /\ ~ /\ not_null(c.section_type)
         /\ check_section_type(c.section_type)
         /\ check_file_type(c.file_type)

\* ------------------------------------------------------------------------
\* The state machine
\* ------------------------------------------------------------------------
\* now      the clock, in ticks
\* db       the committed store: what every new connection reads
\* work     the store as the connection holding the write lock sees it
\*          (db when no transaction is open)
\* lock     the process whose connection holds the write lock, 0 for none
\* pc       per process: 0 when it is in no call, otherwise the number of the
\*          statement its call executes next (NStmts + 1: commit)
\* call     per process: the call in progress and its arguments
\* ret      the call that returned last, and how it ended
\* budget   the number of calls the run may still make
\* lastact  history, per user: the time and duration of the activation
\*          committed last with no revocation committed since
\* applied  history, per user and counter: the sum of the deltas of the
\*          calls that returned normally
NoCall == [op |-> "none"]

NoCounts ==
    [rating_score |-> 0, words_learned |-> 0, total_sessions |-> 0,
     referral_count |-> 0, quiz_score_total |-> 0, quiz_attempts |-> 0]

Start(n) ==
    /\ budget = n
    /\ now = 0
    /\ db = EmptyStore
    /\ work = EmptyStore
    /\ lock = 0
    /\ pc = [p \in Procs |-> 0]
    /\ call = [p \in Procs |-> NoCall]
    /\ ret = [call |-> NoCall, outcome |-> "none"]
    /\ lastact = [u \in UserIds |-> << >>]
    /\ applied = [u \in UserIds |-> NoCounts]

Init == Start(MaxCalls)

\* Process p enters a function of database.py with the arguments c.
Idle(p) == pc[p] = 0 /\ budget > 0

Enter(p, c) ==
    /\ budget' = budget - 1
    /\ call' = [call EXCEPT ![p] = c]
    /\ pc' = [pc EXCEPT ![p] = 1]
    /\ UNCHANGED <<now, db, work, lock, ret, lastact, applied>>

create_user(p, u, prof, n) ==
    /\ Idle(p)
    /\ Enter(p, [op |-> "create_user", user_id |-> u,
               username |-> prof.username, first_name |-> prof.first_name,
               last_name |-> prof.last_name, referred_by |-> prof.referred_by,
               referral_code |-> referral_code(n)])

activate_premium(p, u, duration_days) ==
    /\ Idle(p)
    /\ Enter(p, [op |-> "activate_premium", user_id |-> u, at |-> now,
               duration_days |-> duration_days,
               expires_at |-> isoformat(now + timedelta(duration_days))])

revoke_premium(p, u) ==
    /\ Idle(p)
    /\ Enter(p, [op |-> "revoke_premium", user_id |-> u])

update_user_rating(p, u, points) ==
    /\ Idle(p)
    /\ Enter(p, [op |-> "update_user_rating", user_id |-> u, points |-> points])

update_words_learned(p, u, count) ==
    /\ Idle(p)
    /\ Enter(p, [op |-> "update_words_learned", user_id |-> u, count |-> count])

update_user_activity(p, u) ==
    /\ Idle(p)
    /\ Enter(p, [op |-> "update_user_activity", user_id |-> u])

update_referral_count(p, u) ==
    /\ Idle(p)
    /\ Enter(p, [op |-> "update_referral_count", user_id |-> u])

reset_referral_count(p, u) ==
    /\ Idle(p)
    /\ Enter(p, [op |-> "reset_referral_count", user_id |-> u])

record_quiz_attempt(p, u, q, score, total_questions) ==
    /\ Idle(p)
    /\ Enter(p, [op |-> "record_quiz_attempt", user_id |-> u, quiz_id |-> q,
               score |-> score, total_questions |-> total_questions])

add_referral(p, a, b) ==
    /\ Idle(p)
    /\ Enter(p, [op |-> "add_referral", referrer_id |-> a, referred_id |-> b])

create_section(p, language, is_premium) ==
    /\ Idle(p)
    /\ Enter(p, [op |-> "create_section", language |-> language,
               is_premium |-> is_premium])

create_subsection(p, s) ==
    /\ Idle(p)
    /\ Enter(p, [op |-> "create_subsection", section_id |-> s])

add_content(p, s, x) ==
    /\ Idle(p)
    /\ Enter(p, [op |-> "add_content", section_id |-> s, subsection_id |-> x])

delete_content(p, y) ==
    /\ Idle(p)
    /\ Enter(p, [op |-> "delete_content", content_id |-> y])

delete_section(p, s) ==
    /\ Idle(p)
    /\ Enter(p, [op |-> "delete_section", section_id |-> s])

delete_subsection(p, x) ==
    /\ Idle(p)
    /\ Enter(p, [op |-> "delete_subsection", subsection_id |-> x])

create_quiz(p, language) ==
    /\ Idle(p)
    /\ Enter(p, [op |-> "create_quiz", language |-> language])

add_question(p, q) ==
    /\ Idle(p)
    /\ Enter(p, [op |-> "add_question", quiz_id |-> q])

delete_quiz(p, q) ==
    /\ Idle(p)
    /\ Enter(p, [op |-> "delete_quiz", quiz_id |-> q])

\* What the other connections read after a statement was executed and
\* before the commit (with_autocommit: a connection that commits every
\* statement on its own).
with_autocommit(committed, uncommitted) == uncommitted

after_execute(committed, uncommitted) == committed

Return(p, outcome) ==
    /\ pc' = [pc EXCEPT ![p] = 0]
    /\ call' = [call EXCEPT ![p] = NoCall]
    /\ ret' = [call |-> call[p], outcome |-> outcome]

\* await db.execute(...): the next statement of p's call.  The first one
\* takes the write lock.  A statement that violates a constraint raises;
\* the connection is closed with its transaction open, which rolls it back.
Execute(p) ==
    /\ pc[p] \in 1..NStmts(call[p].op)
    /\ lock \in {0, p}
    /\ IF \/ foreign_keys(call[p].op) /\ MissingParent(call[p], pc[p], work)
          \/ ConstraintFailed(call[p], pc[p])
       THEN /\ work' = db
            /\ lock' = 0
            /\ Return(p, "IntegrityError")
            /\ UNCHANGED db
       ELSE /\ work' = Stmt(call[p], pc[p], work, now)
            /\ lock' = p
            /\ db' = after_execute(db, work')
            /\ pc' = [pc EXCEPT ![p] = @ + 1]
            /\ UNCHANGED <<call, ret>>
    /\ UNCHANGED <<now, budget, lastact, applied>>

\* The deltas of a call that returns normally, added to the history.
Counted(c, a) ==
    CASE c.op = "update_user_rating" ->
            [a EXCEPT !.rating_score = @ + c.points]
      [] c.op = "update_words_learned" ->
            [a EXCEPT !.words_learned = @ + c.count]
      [] c.op = "update_user_activity" -> [a EXCEPT !.total_sessions = @ + 1]
      [] c.op = "update_referral_count" -> [a EXCEPT !.referral_count = @ + 1]
      [] c.op = "record_quiz_attempt" ->
            [a EXCEPT !.quiz_score_total = @ + c.score,
                      !.quiz_attempts = @ + 1]
      [] OTHER -> a

Activated(c, h) ==
    CASE c.op = "activate_premium" -> <<c.at, c.duration_days>>
      [] c.op = "revoke_premium" -> << >>
      [] OTHER -> h

HasUser(c) == "user_id" \in DOMAIN c

\* await db.commit(): the transaction of p's call becomes the committed
\* store, and the call returns.
Commit(p) ==
    /\ pc[p] = NStmts(call[p].op) + 1
    /\ lock = p
    /\ db' = work
    /\ lock' = 0
    /\ Return(p, "ok")
    /\ IF HasUser(call[p]) /\ call[p].user_id \in DOMAIN db.users
       THEN /\ applied' = [applied EXCEPT ![call[p].user_id] =
                              Counted(call[p], @)]
            /\ lastact' = [lastact EXCEPT ![call[p].user_id] =
                              Activated(call[p], @)]
       ELSE UNCHANGED <<applied, lastact>>
    /\ UNCHANGED <<now, work, budget>>

\* The call ends between its first statement and its commit (an exception,
\* a cancelled task, the process killed): the open transaction is rolled
\* back.
Abort(p) ==
    /\ pc[p] >= 2
    /\ lock = p
    /\ work' = db
    /\ lock' = 0
    /\ Return(p, "aborted")
    /\ UNCHANGED <<now, db, budget, lastact, applied>>

\* The first statement of p's call waits for the write lock another
\* connection holds and gives up (sqlite3's timeout): OperationalError.
Timeout(p) ==
    /\ pc[p] = 1
    /\ lock \notin {0, p}
    /\ Return(p, "OperationalError")
    /\ UNCHANGED <<now, db, work, lock, budget, lastact, applied>>

\* Time passes between calls.
Tick ==
    /\ now < MaxTime
    /\ \A p \in Procs : pc[p] = 0
    /\ now' = now + 1
    /\ UNCHANGED <<db, work, lock, pc, call, ret, budget, lastact, applied>>

\* A call that only reads: one SELECT on a connection of its own, which sees
\* the committed store; it returns the value computed from the rows.
Read(p, c, value) ==
    /\ Idle(p)
    /\ budget' = budget - 1
    /\ ret' = [call |-> c, outcome |-> "ok", value |-> value]
    /\ UNCHANGED <<now, db, work, lock, pc, call, lastact, applied>>

\* SELECT * FROM users WHERE referral_code = ? and fetchone(): a row with
\* the code (its user_id stands for the row), or None.
get_user_by_referral_code(p, n) ==
    LET c == [op |-> "get_user_by_referral_code",
              referral_code |-> referral_code(n)]
        S == {u \in DOMAIN db.users : db.users[u].referral_code = c.referral_code}
    IN  \/ S = {} /\ Read(p, c, Null)
        \/ \E u \in S : Read(p, c, <<u>>)

\* ------------------------------------------------------------------------
\* Specifications
\* ------------------------------------------------------------------------
Languages == {"korean", "japanese"}

Next ==
    \/ Tick
    \/ \E p \in Procs :
        \/ Execute(p)
        \/ Commit(p)
        \/ Abort(p)
        \/ Timeout(p)
        \/ \E u \in UserIds :
            \/ \E prof \in Profiles, n \in Codes : create_user(p, u, prof, n)
            \/ \E d \in Durations : activate_premium(p, u, d)
            \/ revoke_premium(p, u)
            \/ \E n \in Points : update_user_rating(p, u, n)
            \/ \E n \in Points : update_words_learned(p, u, n)
            \/ update_user_activity(p, u)
            \/ update_referral_count(p, u)
            \/ reset_referral_count(p, u)
            \/ \E q \in RowIds, n \in Points :
                  record_quiz_attempt(p, u, q, n, 2)
            \/ \E b \in UserIds : add_referral(p, u, b)
        \/ \E n \in Codes : get_user_by_referral_code(p, n)
        \/ \E l \in Languages, f \in BOOLEAN : create_section(p, l, f)
        \/ \E l \in Languages : create_quiz(p, l)
        \/ \E s \in ParentIds, x \in ParentIds : add_content(p, s, x)
        \/ \E s \in RowIds :
            \/ create_subsection(p, s)
            \/ delete_content(p, s)
            \/ delete_section(p, s)
            \/ delete_subsection(p, s)
            \/ add_question(p, s)
            \/ delete_quiz(p, s)

Spec == Init /\ [][Next]_vars

\* The process of the specifications that make one call at a time.
Solo == 1

AnyProfile == CHOOSE prof \in Profiles : TRUE

\* The premium lifecycle, one call at a time, with the clock.
NextPremium ==
    \/ Tick
    \/ Execute(Solo)
    \/ Commit(Solo)
    \/ \E u \in UserIds :
        \/ create_user(Solo, u, AnyProfile, (u - 1) % CodeSpace)
        \/ \E d \in Durations : activate_premium(Solo, u, d)
        \/ revoke_premium(Solo, u)

SpecPremium == Start(PremiumCalls) /\ [][NextPremium]_vars

\* create_user alone, with every profile and every referral code.
NextCreate ==
    \/ Execute(Solo)
    \/ Commit(Solo)
    \/ \E u \in UserIds, prof \in Profiles, n \in Codes :
          create_user(Solo, u, prof, n)
    \/ \E n \in Codes : get_user_by_referral_code(Solo, n)

SpecCreate == Start(CreateCalls) /\ [][NextCreate]_vars

\* The counters of users under concurrent calls of two processes.
NextCounters ==
    \E p \in Procs :
        \/ Execute(p)
        \/ Commit(p)
        \/ Abort(p)
        \/ Timeout(p)
        \/ \E u \in UserIds :
            \/ create_user(p, u, AnyProfile, (u - 1) % CodeSpace)
            \/ \E n \in Points : update_user_rating(p, u, n)
            \/ \E n \in Points : update_words_learned(p, u, n)
            \/ update_user_activity(p, u)
            \/ update_referral_count(p, u)
            \/ \E q \in RowIds, n \in Points :
                  record_quiz_attempt(p, u, q, n, 2)

SpecCounters == Start(CounterCalls) /\ [][NextCounters]_vars

\* The catalog and the quizzes: creations and cascading deletes.
NextCatalog ==
    \E p \in Procs :
        \/ Execute(p)
        \/ Commit(p)
        \/ Abort(p)
        \/ Timeout(p)
        \/ create_section(p, "korean", FALSE)
        \/ create_quiz(p, "korean")
        \/ \E s \in ParentIds, x \in ParentIds : add_content(p, s, x)
        \/ \E s \in RowIds :
            \/ create_subsection(p, s)
            \/ delete_content(p, s)
            \/ delete_section(p, s)
            \/ delete_subsection(p, s)
            \/ add_question(p, s)
            \/ delete_quiz(p, s)

SpecCatalog == Start(CatalogCalls) /\ [][NextCatalog]_vars

\* Quizzes and the attempts on them, one call at a time.
NextQuiz ==
    \/ Execute(Solo)
    \/ Commit(Solo)
    \/ Abort(Solo)
    \/ create_quiz(Solo, "korean")
    \/ \E u \in UserIds : create_user(Solo, u, AnyProfile, (u - 1) % CodeSpace)
    \/ \E q \in RowIds :
        \/ add_question(Solo, q)
        \/ delete_quiz(Solo, q)
        \/ \E u \in UserIds, n \in Points :
              record_quiz_attempt(Solo, u, q, n, 2)

SpecQuiz == Start(QuizCalls) /\ [][NextQuiz]_vars

\* ------------------------------------------------------------------------
\* Premium lifecycle (SpecPremium)
\* ------------------------------------------------------------------------
Exists(u) == u \in DOMAIN db.users

\* The first tick at which the activation recorded in h = <<at, days>> is over.
EndOf(h) == h[1] + h[2] * TicksPerDay

C2_RevokedIsInactive ==
    \A u \in UserIds : lastact[u] = << >> => ~is_premium_active(db, u, now)

\* revoke_premium has executed, and not yet committed, on a user whose
\* premium is active with its expiry still ahead.
C2_Witness ==
    /\ call[Solo].op = "revoke_premium"
    /\ pc[Solo] = 2
    /\ is_premium_active(db, call[Solo].user_id, now)
    /\ ~is_premium_active(work, call[Solo].user_id, now)

\* ------------------------------------------------------------------------
\* create_user (SpecCreate)
\* ------------------------------------------------------------------------
\* Process p returns from a call of op in this step.
Returns(p, op) == pc[p] # 0 /\ pc'[p] = 0 /\ call[p].op = op

\* C9: a create_user call for an id that has a row already returns normally
\* and leaves the users table as it was: one row for the id, every field
\* of it unchanged.
C9_CreateTwice ==
    [][\A p \in Procs :
          (Returns(p, "create_user") /\ call[p].user_id \in DOMAIN db.users)
              => (ret'.outcome = "ok" /\ db'.users = db.users)]_vars

\* A second create_user for the same id, with other names, has returned
\* normally and the row is the one of the first call.
C9_Witness ==
    /\ ret.call.op = "create_user"
    /\ ret.outcome = "ok"
    /\ ret.call.user_id \in DOMAIN db.users
    /\ db.users[ret.call.user_id].first_name # ret.call.first_name

\* C10: after create_user(U, ...) has returned, a user row for U exists
\* (rows of users are never deleted, so this is so for a new id as well).
C10_CreatedAfterReturn ==
    (ret.call.op = "create_user" /\ ret.outcome = "ok")
        => ret.call.user_id \in DOMAIN db.users

\* ------------------------------------------------------------------------
\* Counters (SpecCounters)
\* ------------------------------------------------------------------------
CounterNames ==
    {"rating_score", "words_learned", "total_sessions", "referral_count",
     "quiz_score_total", "quiz_attempts"}

\* C4: under every interleaving of the calls of two processes, each counter
\* of an existing user equals its initial value (0, at creation) plus the
\* sum of the deltas of the calls that returned normally: no increment of
\* update_user_rating, update_words_learned, update_user_activity,
\* update_referral_count or record_quiz_attempt is lost.
C4_NoLostUpdate ==
    \A u \in DOMAIN db.users :
        \A n \in CounterNames : db.users[u][n] = applied[u][n]

\* Two updates of the same counter of the same existing user are in
\* progress at once, one of them executed and holding the write lock, after
\* an earlier update of that counter was committed.
C4_Witness ==
    \E p \in Procs, q \in Procs :
        /\ p # q
        /\ call[p].op = "update_user_rating"
        /\ call[q].op = "update_user_rating"
        /\ call[p].user_id = call[q].user_id
        /\ call[p].user_id \in DOMAIN db.users
        /\ lock = p
        /\ pc[p] = 2
        /\ pc[q] = 1

QuizStats(row) == <<row.quiz_score_total, row.quiz_attempts>>

\* The step changes what record_quiz_attempt writes: the attempts table, or
\* the quiz counters of a user.
QuizWritten ==
    \/ db'.quiz_attempts # db.quiz_attempts
    \/ \E u \in (DOMAIN db.users) \cap (DOMAIN db'.users) :
          QuizStats(db'.users[u]) # QuizStats(db.users[u])

\* C5: a record_quiz_attempt(U, Q, s, t) that returns normally for an
\* existing user appends exactly one attempt row (U, Q, s, t) and adds s to
\* U's quiz_score_total and 1 to U's quiz_attempts in the same step of the
\* committed store; a call that ends any other way changes nothing; and no
\* other step changes the attempts or the quiz counters, so no state has
\* the row without the counters or the counters without the row.
C5_AttemptIsOneUnit ==
    [][/\ \A p \in Procs :
            (Returns(p, "record_quiz_attempt") /\ ret'.outcome = "ok"
                /\ call[p].user_id \in DOMAIN db.users)
            => LET c == call[p]
                   id == db.seq["quiz_attempts"] + 1
                   old == db.users[c.user_id]
                   new == db'.users[c.user_id]
               IN  /\ DOMAIN db'.quiz_attempts =
                          (DOMAIN db.quiz_attempts) \cup {id}
                   /\ id \notin DOMAIN db.quiz_attempts
                   /\ db'.quiz_attempts[id] =
                          [user_id |-> c.user_id, quiz_id |-> c.quiz_id,
                           score |-> c.score,
                           total_questions |-> c.total_questions]
                   /\ \A x \in DOMAIN db.quiz_attempts :
                          db'.quiz_attempts[x] = db.quiz_attempts[x]
                   /\ new.quiz_score_total = old.quiz_score_total + c.score
                   /\ new.quiz_attempts = old.quiz_attempts + 1
       /\ \A p \in Procs :
            (Returns(p, "record_quiz_attempt") /\ ret'.outcome # "ok")
                => db' = db
       /\ QuizWritten =>
            \E p \in Procs :
                Returns(p, "record_quiz_attempt") /\ ret'.outcome = "ok"
      ]_vars

\* An attempt of an existing user was recorded: its row and the counters
\* are in the committed store.
C5_Witness ==
    /\ ret.call.op = "record_quiz_attempt"
    /\ ret.outcome = "ok"
    /\ ret.call.user_id \in DOMAIN db.users
    /\ db.users[ret.call.user_id].quiz_attempts = 1
    /\ db.users[ret.call.user_id].quiz_score_total = ret.call.score
    /\ \E x \in DOMAIN db.quiz_attempts :
          db.quiz_attempts[x].user_id = ret.call.user_id

\* ------------------------------------------------------------------------
\* Catalog and quizzes (SpecCatalog, SpecQuiz)
\* ------------------------------------------------------------------------
\* Every child row of the store d refers to an existing parent row (0 being
\* the "unassigned" value of the two references of a content row).
Consistent(d) ==
    /\ \A x \in DOMAIN d.subsections :
          d.subsections[x].section_id \in DOMAIN d.sections
    /\ \A y \in DOMAIN d.content :
          /\ d.content[y].section_id \in (DOMAIN d.sections) \cup {0}
          /\ d.content[y].subsection_id \in (DOMAIN d.subsections) \cup {0}
    /\ \A x \in DOMAIN d.questions :
          d.questions[x].quiz_id \in DOMAIN d.quizzes
    /\ \A x \in DOMAIN d.quiz_attempts :
          /\ d.quiz_attempts[x].user_id \in DOMAIN d.users
          /\ d.quiz_attempts[x].quiz_id \in DOMAIN d.quizzes
    /\ \A x \in DOMAIN d.referrals :
          /\ d.referrals[x].referrer_id \in DOMAIN d.users
          /\ d.referrals[x].referred_id \in DOMAIN d.users

\* C3: when delete_section(S) has returned (here: for an existing section
\* S of a store in which every reference names an existing parent),
\* section S is gone, no subsection has section_id = S, no content row has
\* section_id = S, and no content row has the subsection_id of a
\* subsection that belonged to S.
C3_DeleteSectionCascades ==
    [][\A p \in Procs :
          (/\ Returns(p, "delete_section")
           /\ ret'.outcome = "ok"
           /\ call[p].section_id \in DOMAIN db.sections
           /\ Consistent(db))
          => LET S == call[p].section_id
             IN  /\ S \notin DOMAIN db'.sections
                 /\ \A x \in DOMAIN db'.subsections :
                        db'.subsections[x].section_id # S
                 /\ \A y \in DOMAIN db'.content :
                        /\ db'.content[y].section_id # S
                        /\ \A x \in DOMAIN db.subsections :
                              db.subsections[x].section_id = S
                                  => db'.content[y].subsection_id # x]_vars

\* C6: foreign keys are enforced on every operation, so that in every
\* state of the committed store every child row refers to an existing
\* parent row.
C6_ForeignKeysHold == Consistent(db)

\* C7: when delete_quiz(Q) has returned (here: for an existing quiz Q of a
\* store in which every reference names an existing parent), quiz Q is
\* gone, no question has quiz_id = Q and no row of quiz_attempts has
\* quiz_id = Q.
C7_DeleteQuizLeavesNoReference ==
    [][\A p \in Procs :
          (/\ Returns(p, "delete_quiz")
           /\ ret'.outcome = "ok"
           /\ call[p].quiz_id \in DOMAIN db.quizzes
           /\ Consistent(db))
          => LET Q == call[p].quiz_id
             IN  /\ Q \notin DOMAIN db'.quizzes
                 /\ \A x \in DOMAIN db'.questions :
                        db'.questions[x].quiz_id # Q
                 /\ \A x \in DOMAIN db'.quiz_attempts :
                        db'.quiz_attempts[x].quiz_id # Q]_vars

\* The rows of table t whose column col is not v.
Without(t, col, v) == Keep(t, {x \in DOMAIN t : t[x][col] # v})

CascadeTables == {"sections", "subsections", "content", "quizzes", "questions"}

\* C8: the committed store, which is what any other connection reads, moves
\* from the state before a cascading delete to the state after all of its
\* statements in one step, when the delete returns normally; a delete that
\* ends any other way leaves the committed store as it was; and no step but
\* the normal return of a delete removes a row of these tables.  So no
\* reader sees a parent gone with the children the delete removes still
\* there, or such children gone with the parent still there.
C8_CascadeIsAtomic ==
    [][/\ \A p \in Procs :
            (Returns(p, "delete_section") /\ ret'.outcome = "ok")
            => LET S == call[p].section_id
               IN  /\ db'.sections = Keep(db.sections, (DOMAIN db.sections) \ {S})
                   /\ db'.subsections = Without(db.subsections, "section_id", S)
                   /\ db'.content = Without(db.content, "section_id", S)
       /\ \A p \in Procs :
            (Returns(p, "delete_subsection") /\ ret'.outcome = "ok")
            => LET X == call[p].subsection_id
               IN  /\ db'.subsections =
                          Keep(db.subsections, (DOMAIN db.subsections) \ {X})
                   /\ db'.content = Without(db.content, "subsection_id", X)
                   /\ db'.sections = db.sections
       /\ \A p \in Procs :
            (Returns(p, "delete_quiz") /\ ret'.outcome = "ok")
            => LET Q == call[p].quiz_id
               IN  /\ db'.quizzes = Keep(db.quizzes, (DOMAIN db.quizzes) \ {Q})
                   /\ db'.questions = Without(db.questions, "quiz_id", Q)
       /\ \A p \in Procs :
            (pc[p] # 0 /\ pc'[p] = 0 /\ ret'.outcome # "ok") => db' = db
       /\ (\E t \in CascadeTables : ~((DOMAIN db[t]) \subseteq (DOMAIN db'[t])))
            => \E p \in Procs :
                  /\ ret'.outcome = "ok"
                  /\ \/ Returns(p, "delete_section")
                     \/ Returns(p, "delete_subsection")
                     \/ Returns(p, "delete_quiz")
                     \/ Returns(p, "delete_content")
      ]_vars

\* delete_section has executed two of its three statements: in its open
\* transaction the content and the subsections of the section are gone and
\* the section is still there, while the committed store still holds the
\* section with its subsection and its content.
C8_Witness ==
    \E p \in Procs :
        /\ call[p].op = "delete_section"
        /\ pc[p] = 3
        /\ call[p].section_id \in DOMAIN db.sections
        /\ SubsectionsOf(db, call[p].section_id) # {}
        /\ ContentOfSection(db, call[p].section_id) # {}
        /\ call[p].section_id \in DOMAIN work.sections
        /\ SubsectionsOf(work, call[p].section_id) = {}
        /\ ContentOfSection(work, call[p].section_id) = {}

\* ------------------------------------------------------------------------
\* is_premium_active as a function of the stored row (SpecActive)
\* ------------------------------------------------------------------------
\* The latest expiry activate_premium can store within the run.
Horizon == MaxTime + timedelta(MaxDays)

\* A text in premium_expires_at that is not in the format of isoformat().
Garbled == <<"soon">>

\* What the column premium_expires_at of a row can hold.
StoredExpiries == {Null, Garbled} \cup {isoformat(t) : t \in 0..Horizon}

\* The users tables the function is evaluated on: no row, or a row for
\* user 1 with any flag and any stored expiry.
StoredUsers ==
    {EmptyTable} \cup
    {Put(EmptyTable, 1,
         [NewUser([username |-> AnyProfile.username,
                   first_name |-> AnyProfile.first_name,
                   last_name |-> AnyProfile.last_name,
                   referred_by |-> AnyProfile.referred_by,
                   referral_code |-> referral_code(0)], 0)
            EXCEPT !.is_premium = f, !.premium_expires_at = e]) :
        f \in BOOLEAN, e \in StoredExpiries}

check_premium(p, u) ==
    Read(p, [op |-> "is_premium_active", user_id |-> u, at |-> now],
         is_premium_active(db, u, now))

StartActive ==
    /\ budget = ActiveCalls
    /\ now = 0
    /\ \E rows \in StoredUsers : db = [EmptyStore EXCEPT !.users = rows]
    /\ work = db
    /\ lock = 0
    /\ pc = [p \in Procs |-> 0]
    /\ call = [p \in Procs |-> NoCall]
    /\ ret = [call |-> NoCall, outcome |-> "none"]
    /\ lastact = [u \in UserIds |-> << >>]
    /\ applied = [u \in UserIds |-> NoCounts]

NextActive ==
    \/ Tick
    \/ \E u \in UserIds : check_premium(Solo, u)

SpecActive == StartActive /\ [][NextActive]_vars

\* The store holds, for user u, a set flag and the text of a timestamp that
\* lies strictly after the time t.
FlagAndFutureExpiry(u, t) ==
    /\ u \in DOMAIN db.users
    /\ db.users[u].is_premium = TRUE
    /\ db.users[u].premium_expires_at # Null
    /\ \E e \in 0..Horizon :
          /\ db.users[u].premium_expires_at = isoformat(e)
          /\ t < e

\* C11: is_premium_active(U) returns normally, and returns true exactly
\* when U exists, U's flag is set, a timestamp is stored as the expiry and
\* the time of the evaluation is strictly before it; so it returns false at
\* the expiry itself, for an id without a row, for a null expiry and for a
\* stored text that is no timestamp.  (The store does not change in
\* SpecActive, so the store of the state is the store the call has read.)
C11_ActiveIff ==
    ret.call.op = "is_premium_active" =>
        /\ ret.outcome = "ok"
        /\ ret.value = FlagAndFutureExpiry(ret.call.user_id, ret.call.at)

\* The function was evaluated at the very time of the stored expiry of a
\* user whose flag is set, and has returned false.
C11_Witness ==
    /\ ret.call.op = "is_premium_active"
    /\ ret.call.user_id \in DOMAIN db.users
    /\ db.users[ret.call.user_id].is_premium
    /\ ret.call.at > 0
    /\ db.users[ret.call.user_id].premium_expires_at = isoformat(ret.call.at)
    /\ ret.value = FALSE

\* ------------------------------------------------------------------------
\* The account operations together (SpecAccount)
\* ------------------------------------------------------------------------
NextAccount ==
    \E p \in Procs :
        \/ Execute(p)
        \/ Commit(p)
        \/ Abort(p)
        \/ Timeout(p)
        \/ \E u \in UserIds :
            \/ create_user(p, u, AnyProfile, (u - 1) % CodeSpace)
            \/ \E d \in Durations : activate_premium(p, u, d)
            \/ revoke_premium(p, u)
            \/ update_user_rating(p, u, 1)
            \/ update_words_learned(p, u, 1)
            \/ update_user_activity(p, u)
            \/ update_referral_count(p, u)

SpecAccount == Start(AccountCalls) /\ [][NextAccount]_vars

\* C12: in every state, of the committed store and of an open transaction
\* alike, every user whose is_premium flag is true has a premium_expires_at
\* that is not null.
C12_PremiumHasExpiry ==
    \A d \in {db, work} :
        \A u \in DOMAIN d.users :
            d.users[u].is_premium => d.users[u].premium_expires_at # Null

\* activate_premium has returned for an existing user while another call on
\* the same user is in progress: the flag is set and the expiry is stored.
C12_Witness ==
    /\ ret.call.op = "activate_premium"
    /\ ret.outcome = "ok"
    /\ ret.call.user_id \in DOMAIN db.users
    /\ db.users[ret.call.user_id].is_premium
    /\ db.users[ret.call.user_id].premium_expires_at # Null
    /\ \E p \in Procs :
          /\ pc[p] = 2
          /\ call[p].op \in {"revoke_premium", "update_user_activity"}
          /\ call[p].user_id = ret.call.user_id

\* ------------------------------------------------------------------------
\* get_leaderboard (SpecBoard)
\* ------------------------------------------------------------------------
BoardIds == {1, 2, 3}
\* rating_score is REAL and update_user_rating adds any float: a rating can
\* be negative.
Ratings == {-1, 0, 1, 2}
Scores == {0, 1}
Limits == -1..MaxLimit

\* The users tables get_leaderboard is evaluated on: a row per id, with any
\* rating, any number of words learned and any cumulative quiz score.
RankedUsers ==
    {[u \in BoardIds |->
        [NewUser([username |-> AnyProfile.username,
                  first_name |-> AnyProfile.first_name,
                  last_name |-> AnyProfile.last_name,
                  referred_by |-> AnyProfile.referred_by,
                  referral_code |-> referral_code(u)], 0)
           EXCEPT !.rating_score = k[u][1], !.words_learned = k[u][2],
                  !.quiz_score_total = k[u][3]]] :
        k \in [BoardIds -> Ratings \X Scores \X Scores]}

\* SELECT user_id, ..., rating_score, words_learned, quiz_score_total
Selected(d, u) ==
    [user_id |-> u,
     rating_score |-> d.users[u].rating_score,
     words_learned |-> d.users[u].words_learned,
     quiz_score_total |-> d.users[u].quiz_score_total]

\* WHERE rating_score >= 0
where_rating_not_negative(d) ==
    {u \in DOMAIN d.users : d.users[u].rating_score >= 0}

\* WHERE rating_score > 0
where_rating_positive(d) == {u \in DOMAIN d.users : d.users[u].rating_score > 0}

\* ORDER BY rating_score DESC, words_learned DESC, quiz_score_total DESC:
\* row a has to come before row b.
Before(a, b) ==
    \/ a.rating_score > b.rating_score
    \/ /\ a.rating_score = b.rating_score
       /\ a.words_learned > b.words_learned
    \/ /\ a.rating_score = b.rating_score
       /\ a.words_learned = b.words_learned
       /\ a.quiz_score_total > b.quiz_score_total

\* The orders ORDER BY can deliver the rows of the users in S in: rows equal
\* in the three columns come in any order.
order_by(d, S) ==
    {s \in [1..Cardinality(S) -> {Selected(d, u) : u \in S}] :
        /\ \A i, j \in DOMAIN s : i # j => s[i] # s[j]
        /\ \A i, j \in DOMAIN s : i < j => ~Before(s[j], s[i])}

\* LIMIT n: the first n rows; SQLite puts no bound on the rows when n is
\* negative.
limit_rows(s, n) ==
    IF n < 0 THEN s
    ELSE SubSeq(s, 1, IF n < Len(s) THEN n ELSE Len(s))

get_leaderboard(p, limit) ==
    \E s \in order_by(db, where_rating_positive(db)) :
        Read(p, [op |-> "get_leaderboard", limit |-> limit],
             limit_rows(s, limit))

StartBoard ==
    /\ budget = BoardCalls
    /\ now = 0
    /\ \E rows \in RankedUsers : db = [EmptyStore EXCEPT !.users = rows]
    /\ work = db
    /\ lock = 0
    /\ pc = [p \in Procs |-> 0]
    /\ call = [p \in Procs |-> NoCall]
    /\ ret = [call |-> NoCall, outcome |-> "none"]
    /\ lastact = [u \in UserIds |-> << >>]
    /\ applied = [u \in UserIds |-> NoCounts]

NextBoard == \E n \in Limits : get_leaderboard(Solo, n)

SpecBoard == StartBoard /\ [][NextBoard]_vars

\* The sort key of a returned row, and the lexicographic "ranks higher".
Key(r) == <<r.rating_score, r.words_learned, r.quiz_score_total>>

RanksHigher(a, b) ==
    \E i \in 1..3 : Key(a)[i] > Key(b)[i] /\ \A j \in 1..(i - 1) : Key(a)[j] = Key(b)[j]

\* The rows r are the first n of the users with a positive rating in
\* ranking order: at most n rows, one per user and as the store has them,
\* all with a positive rating, none before a row that ranks higher, as many
\* as there are eligible users up to n, and no eligible user left out who
\* ranks higher than a returned one.
TopOf(r, n) ==
    LET eligible == {u \in DOMAIN db.users : db.users[u].rating_score > 0}
        got == {r[i].user_id : i \in DOMAIN r}
    IN  /\ Len(r) <= n
        /\ \A i \in DOMAIN r :
              /\ r[i].user_id \in eligible
              /\ r[i] = Selected(db, r[i].user_id)
        /\ \A i, j \in DOMAIN r : i < j =>
              /\ r[i].user_id # r[j].user_id
              /\ ~RanksHigher(r[j], r[i])
        /\ Len(r) = Cardinality(eligible) \/ Len(r) = n
        /\ \A u \in eligible \ got :
              \A i \in DOMAIN r : ~RanksHigher(Selected(db, u), r[i])

\* C13 as claimed, for every limit an int can be: get_leaderboard(N)
\* returns at most N users, the first N of the users with a positive rating
\* in ranking order.
C13_TopN_AsClaimed ==
    ret.call.op = "get_leaderboard" => TopOf(ret.value, ret.call.limit)

\* C13, amended to limits that are not negative: get_leaderboard(N) with
\* N >= 0 returns at most N users, the first N of the users with a positive
\* rating in ranking order (rating, then words learned, then cumulative quiz
\* score, all descending); with N < 0 it returns every user with a positive
\* rating, in that order.
C13_TopN ==
    ret.call.op = "get_leaderboard" =>
        IF ret.call.limit >= 0
        THEN TopOf(ret.value, ret.call.limit)
        ELSE TopOf(ret.value, Cardinality(DOMAIN db.users))

\* get_leaderboard(1) has returned the one of two users tied on a positive
\* rating who learned more words, with a third user of rating zero or less
\* in the store.
C13_Witness ==
    /\ ret.call.op = "get_leaderboard"
    /\ ret.call.limit = 1
    /\ Len(ret.value) = 1
    /\ \E u, v \in DOMAIN db.users :
          /\ u # v
          /\ u # ret.value[1].user_id
          /\ v # ret.value[1].user_id
          /\ db.users[u].rating_score = ret.value[1].rating_score
          /\ db.users[u].words_learned < ret.value[1].words_learned
          /\ db.users[v].rating_score <= 0

\* ------------------------------------------------------------------------
\* get_sections (SpecSections)
\* ------------------------------------------------------------------------
\* The rows a cursor delivers: plain tuples of column values, as no
\* connection of database.py sets a row_factory.
row_factory == "tuple"

\* dict(row) for the rows of a result: a tuple of column values is no
\* sequence of key/value pairs, and dict() raises TypeError on it.
dict_raises(rows) == row_factory = "tuple" /\ rows # << >>

\* "if language:" and "if is_premium is not None:": the filters of the query.
\* An argument that is not supplied is None (Null); a supplied value v is
\* <<v>>.
Matches(row, language, is_premium) ==
    /\ language = Null \/ language[1] = "" \/ row.language = language[1]
    /\ is_premium = Null \/ row.is_premium = is_premium[1]

\* SELECT * FROM sections WHERE ... ORDER BY created_at: the ids of the
\* matching rows in the orders the query can deliver them in (rows created
\* in the same tick in any order).
select_sections(d, language, is_premium) ==
    LET S == {x \in DOMAIN d.sections :
                 Matches(d.sections[x], language, is_premium)}
    IN  {s \in [1..Cardinality(S) -> S] :
            /\ \A i, j \in DOMAIN s : i # j => s[i] # s[j]
            /\ \A i, j \in DOMAIN s : i < j =>
                  d.sections[s[i]].created_at <= d.sections[s[j]].created_at}

\* A call that only reads raises.
Raise(p, c, error) ==
    /\ Idle(p)
    /\ budget' = budget - 1
    /\ ret' = [call |-> c, outcome |-> error]
    /\ UNCHANGED <<now, db, work, lock, pc, call, lastact, applied>>

\* return [dict(row) for row in rows] if rows else []
get_sections(p, language, is_premium) ==
    LET c == [op |-> "get_sections", language |-> language,
              is_premium |-> is_premium]
    IN  \E rows \in select_sections(db, language, is_premium) :
            IF dict_raises(rows)
            THEN Raise(p, c, "TypeError")
            ELSE Read(p, c, rows)

NextSections ==
    \/ Tick
    \/ Execute(Solo)
    \/ Commit(Solo)
    \/ \E l \in Languages, f \in BOOLEAN : create_section(Solo, l, f)
    \/ \E l \in {Null} \cup {<<x>> : x \in Languages},
          f \in {Null} \cup {<<x>> : x \in BOOLEAN} :
          get_sections(Solo, l, f)

SpecSections == Start(SectionCalls) /\ [][NextSections]_vars

\* C14: get_sections(language=L, is_premium=P) returns without raising, for
\* every content of the store, exactly the sections whose language is L and
\* whose flag is P (a filter that is not supplied does not restrict), each
\* once, in ascending order of creation.
C14_SectionsFiltered ==
    ret.call.op = "get_sections" =>
        /\ ret.outcome = "ok"
        /\ {ret.value[i] : i \in DOMAIN ret.value} =
              {x \in DOMAIN db.sections :
                  /\ ret.call.language = Null
                        \/ db.sections[x].language = ret.call.language[1]
                  /\ ret.call.is_premium = Null
                        \/ db.sections[x].is_premium = ret.call.is_premium[1]}
        /\ \A i, j \in DOMAIN ret.value : i < j =>
              /\ ret.value[i] # ret.value[j]
              /\ db.sections[ret.value[i]].created_at
                    <= db.sections[ret.value[j]].created_at

\* ------------------------------------------------------------------------
\* Referrals (SpecReferral)
\* ------------------------------------------------------------------------
\* SELECT referral_count FROM users WHERE user_id = ? (the denormalized
\* counter in place of the count of the edges)
read_referral_count(d, u) ==
    IF u \in DOMAIN d.users THEN d.users[u].referral_count ELSE 0

\* SELECT COUNT(*) FROM referrals WHERE referrer_id = ?
count_referrals(d, u) ==
    Cardinality({x \in DOMAIN d.referrals : d.referrals[x].referrer_id = u})

get_user_referrals_count(p, u) ==
    Read(p, [op |-> "get_user_referrals_count", user_id |-> u],
         count_referrals(db, u))

NextReferral ==
    \E p \in Procs :
        \/ Execute(p)
        \/ Commit(p)
        \/ Abort(p)
        \/ Timeout(p)
        \/ \E u \in UserIds :
            \/ create_user(p, u, AnyProfile, (u - 1) % CodeSpace)
            \/ \E b \in UserIds : add_referral(p, u, b)
            \/ update_referral_count(p, u)
            \/ reset_referral_count(p, u)
            \/ get_user_referrals_count(p, u)

SpecReferral == Start(ReferralCalls) /\ [][NextReferral]_vars

\* The step is the normal return of a call of op (ret' is that call).
ReturnsOk(op) == ret'.outcome = "ok" /\ \E p \in Procs : Returns(p, op)

\* The step is a call of op that only reads (ret' is that call).
ReadsOk(op) ==
    /\ budget' # budget
    /\ pc' = pc
    /\ ret'.call.op = op
    /\ ret'.outcome = "ok"

\* The edges of the step's store and what get_user_referrals_count returns:
\*  - an add_referral(A, B) that returns normally records exactly one new
\*    edge (A, B), keeps every other edge, and leaves the users table,
\*    A's referral_count included, as it was;
\*  - no other step changes the edges;
\*  - get_user_referrals_count(A) returns the number of edges with
\*    referrer A.
EdgesCounted ==
    /\ ReturnsOk("add_referral") =>
          LET id == db.seq["referrals"] + 1
          IN  /\ id \notin DOMAIN db.referrals
              /\ db'.referrals =
                    Put(db.referrals, id,
                        [referrer_id |-> ret'.call.referrer_id,
                         referred_id |-> ret'.call.referred_id])
              /\ db'.users = db.users
    /\ db'.referrals # db.referrals => ReturnsOk("add_referral")
    /\ ReadsOk("get_user_referrals_count") =>
          ret'.value =
              Cardinality({x \in DOMAIN db.referrals :
                              db.referrals[x].referrer_id = ret'.call.user_id})

\* The step changes the referral_count of a user that has a row before and
\* after it.
CountChanged(u) ==
    /\ u \in DOMAIN db.users
    /\ u \in DOMAIN db'.users
    /\ db'.users[u].referral_count # db.users[u].referral_count

\* C15 as claimed: get_user_referrals_count(A) equals the number of edges
\* add_referral recorded for referrer A, add_referral leaves
\* users.referral_count unchanged, and users.referral_count changes only
\* when update_referral_count is invoked on that user, which leaves the
\* edges unchanged.
C15_ReferralStores_AsClaimed ==
    [][/\ EdgesCounted
       /\ \A u \in UserIds :
             CountChanged(u) =>
                /\ ReturnsOk("update_referral_count")
                /\ ret'.call.user_id = u
      ]_vars

\* C15, amended by the second function that writes the counter:
\* get_user_referrals_count(A) equals the number of edges add_referral
\* recorded for referrer A, add_referral leaves users.referral_count
\* unchanged, and users.referral_count changes only when
\* update_referral_count or reset_referral_count is invoked on that user,
\* each of which leaves the edges unchanged.
C15_ReferralStores ==
    [][/\ EdgesCounted
       /\ \A u \in UserIds :
             CountChanged(u) =>
                /\ \/ ReturnsOk("update_referral_count")
                   \/ ReturnsOk("reset_referral_count")
                /\ ret'.call.user_id = u
      ]_vars

\* get_user_referrals_count(A) has returned 1 for an existing user A whose
\* referral_count is 0: an edge was recorded and the counter was not
\* touched.
C15_Witness ==
    /\ ret.call.op = "get_user_referrals_count"
    /\ ret.value = 1
    /\ ret.call.user_id \in DOMAIN db.users
    /\ db.users[ret.call.user_id].referral_count = 0
    /\ count_referrals(db, ret.call.user_id) = 1

\* ------------------------------------------------------------------------
\* Process start: main and init_db (SpecStartup)
\* ------------------------------------------------------------------------
\* The database file before init_db ever ran on it.
FreshFile == [EmptyStore EXCEPT !.tables = {}]

\* The task that serves a chat event while the bot polls.
Handler == 2

\* init_db executes PRAGMA foreign_keys, one CREATE TABLE per table of the
\* schema, and commits.
NInit == Len(Schema) + 2

\* CREATE TABLE name: an error when the table exists.
create_table(d, name) ==
    IF name \in d.tables
    THEN [error |-> TRUE, store |-> d]
    ELSE [error |-> FALSE, store |-> [d EXCEPT !.tables = @ \cup {name}]]

\* CREATE TABLE IF NOT EXISTS name: nothing happens when the table exists.
\* The sqlite3 module opens no transaction for a CREATE statement: each one
\* is committed as it is executed.
create_table_if_not_exists(d, name) ==
    [error |-> FALSE, store |-> [d EXCEPT !.tables = @ \cup {name}]]

\* Statement k of init_db on the store d.
init_db_stmt(d, k) ==
    IF k \in 2..(Len(Schema) + 1)
    THEN create_table_if_not_exists(d, Schema[k - 1])
    ELSE [error |-> FALSE, store |-> d]

\* except Exception as e: print(...) and nothing more
init_db_except_logged(e) == [raised |-> FALSE, error |-> e]

\* init_db: except Exception as e: raise Exception(f"Failed to initialize
\* database: {e}")
init_db_except(e) == [raised |-> TRUE, error |-> "Exception"]

\* main: except Exception as e: log and raise
main_except(e) == [raised |-> TRUE, error |-> e]

\* The events of a run of main, in order, are kept in call.log.
Logged(p, event) == [call[p] EXCEPT !.log = Append(@, event)]

InMain(p) == call[p].op = "main"

\* asyncio.run(main())
main(p) ==
    /\ Idle(p)
    /\ \A q \in Procs : pc[q] = 0
    /\ Enter(p, [op |-> "main", log |-> << >>])

\* An exception e in init_db, seen from main: init_db's handler turns it
\* into the exception main's handler gets, and main ends by raising; were it
\* not raised by init_db, main would go on after "await init_db()".
InitRaises(p, e, event) ==
    LET r == init_db_except(e)
        m == main_except(r.error)
    IN  IF r.raised /\ m.raised
        THEN /\ pc' = [pc EXCEPT ![p] = 0]
             /\ call' = [call EXCEPT ![p] = NoCall]
             /\ ret' = [call |-> Logged(p, event), outcome |-> m.error]
        ELSE IF r.raised
        THEN /\ pc' = [pc EXCEPT ![p] = 0]
             /\ call' = [call EXCEPT ![p] = NoCall]
             /\ ret' = [call |-> Logged(p, event), outcome |-> "ok"]
        ELSE /\ pc' = [pc EXCEPT ![p] = NInit + 1]
             /\ call' = [call EXCEPT ![p] = Logged(p, event)]
             /\ UNCHANGED ret

\* await init_db(): its next statement.
init_db(p) ==
    /\ InMain(p)
    /\ pc[p] \in 1..NInit
    /\ lock = 0
    /\ LET r == init_db_stmt(db, pc[p])
       IN  IF r.error
           THEN /\ InitRaises(p, "OperationalError", "init_db_error")
                /\ UNCHANGED <<db, work>>
           ELSE /\ db' = r.store
                /\ work' = r.store
                /\ pc' = [pc EXCEPT ![p] = @ + 1]
                /\ call' = [call EXCEPT ![p] =
                               IF pc[p] = NInit THEN Logged(p, "init_db")
                               ELSE call[p]]
                /\ UNCHANGED ret
    /\ UNCHANGED <<now, lock, budget, lastact, applied>>

\* The storage fails under a statement of init_db (the file cannot be
\* opened or written).
init_db_fault(p) ==
    /\ InMain(p)
    /\ pc[p] \in 1..NInit
    /\ InitRaises(p, "OperationalError", "init_db_fault")
    /\ UNCHANGED <<now, db, work, lock, budget, lastact, applied>>

\* Main is at its k-th step after init_db.
AtStep(p, k) == InMain(p) /\ pc[p] = NInit + k

\* The step is done.
Proceed(p, event) ==
    /\ pc' = [pc EXCEPT ![p] = @ + 1]
    /\ call' = [call EXCEPT ![p] = Logged(p, event)]
    /\ UNCHANGED <<now, db, work, lock, ret, budget, lastact, applied>>

\* bot = Bot(...); dp = Dispatcher(...)
create_bot(p) ==
    /\ AtStep(p, 1)
    /\ Proceed(p, "bot")

\* dp.include_router(...), six times
include_router(p) ==
    /\ AtStep(p, 2)
    /\ Proceed(p, "include_router")

\* await start_scheduler(bot)
start_scheduler(p) ==
    /\ AtStep(p, 3)
    /\ Proceed(p, "start_scheduler")

\* await dp.start_polling(bot): handlers run from here on
start_polling(p) ==
    /\ AtStep(p, 4)
    /\ Proceed(p, "start_polling")

Polling == AtStep(Solo, 5)

\* A step of main after init_db raises: main's handler raises it again.
startup_fault(p) ==
    /\ InMain(p)
    /\ pc[p] \in (NInit + 1)..(NInit + 4)
    /\ LET m == main_except("Exception")
       IN  /\ m.raised
           /\ pc' = [pc EXCEPT ![p] = 0]
           /\ call' = [call EXCEPT ![p] = NoCall]
           /\ ret' = [call |-> Logged(p, "startup_fault"), outcome |-> m.error]
    /\ UNCHANGED <<now, db, work, lock, budget, lastact, applied>>

\* Polling ends (the bot is shut down) and main returns.
stop_polling(p) ==
    /\ InMain(p)
    /\ pc[p] = NInit + 5
    /\ \A q \in Procs \ {p} : pc[q] = 0
    /\ Return(p, "ok")
    /\ UNCHANGED <<now, db, work, lock, budget, lastact, applied>>

StartStartup ==
    /\ budget = StartupCalls
    /\ now = 0
    /\ db = FreshFile
    /\ work = FreshFile
    /\ lock = 0
    /\ pc = [p \in Procs |-> 0]
    /\ call = [p \in Procs |-> NoCall]
    /\ ret = [call |-> NoCall, outcome |-> "none"]
    /\ lastact = [u \in UserIds |-> << >>]
    /\ applied = [u \in UserIds |-> NoCounts]

NextStartup ==
    \/ main(Solo)
    \/ init_db(Solo)
    \/ init_db_fault(Solo)
    \/ create_bot(Solo)
    \/ include_router(Solo)
    \/ start_scheduler(Solo)
    \/ start_polling(Solo)
    \/ startup_fault(Solo)
    \/ stop_polling(Solo)
    \/ Execute(Handler)
    \/ Commit(Handler)
    \/ Polling /\ \E u \in UserIds :
                     create_user(Handler, u, AnyProfile, (u - 1) % CodeSpace)
    \/ Polling /\ create_section(Handler, "korean", FALSE)
    \/ Polling /\ create_quiz(Handler, "korean")

SpecStartup == StartStartup /\ [][NextStartup]_vars

\* The logs of the runs of main: the one in progress and the one that
\* ended last.
MainLogs ==
    {call[p].log : p \in {q \in Procs : call[q].op = "main"}}
        \cup (IF ret.call.op = "main" THEN {ret.call.log} ELSE {})

InitFailed(log) ==
    \E i \in DOMAIN log : log[i] \in {"init_db_fault", "init_db_error"}

\* C16: in every run of main, handlers are registered, the scheduler is
\* started and polling is started only after init_db has completed, in a run
\* in which init_db has not failed; and a run in which init_db failed has
\* ended with that failure as its last event and with the exception raised
\* out of main.
C16_InitFirst ==
    /\ \A log \in MainLogs :
          \A i \in DOMAIN log :
              log[i] \in {"include_router", "start_scheduler", "start_polling"}
                  => /\ \E j \in 1..(i - 1) : log[j] = "init_db"
                     /\ ~InitFailed(log)
    /\ \A p \in Procs : call[p].op = "main" => ~InitFailed(call[p].log)
    /\ (ret.call.op = "main" /\ InitFailed(ret.call.log)) =>
          /\ ret.outcome = "Exception"
          /\ ret.call.log[Len(ret.call.log)] \in {"init_db_fault", "init_db_error"}

\* init_db failed after it had created some and not all of the tables, and
\* main has raised.
C16_Witness ==
    /\ ret.call.op = "main"
    /\ ret.outcome = "Exception"
    /\ ret.call.log = <<"init_db_fault">>
    /\ "users" \in db.tables
    /\ "referrals" \notin db.tables

\* The store holds every table of the schema.
Initialized(d) == \A i \in DOMAIN Schema : Schema[i] \in d.tables

\* C17: a statement of init_db executed on a store that holds every table
\* already does not fail and leaves the store, its tables and every row of
\* them, exactly as it was; so init_db run again, after whatever the
\* handlers have written, completes unless the storage itself fails.
C17_InitIdempotent ==
    [][\A p \in Procs :
          (/\ call[p].op = "main"
           /\ pc[p] \in 1..NInit
           /\ Initialized(db)
           /\ ~(pc'[p] = 0 /\ ret'.call.op = "main"
                  /\ ret'.call.log = <<"init_db_fault">>))
          => /\ db' = db
             /\ pc'[p] = pc[p] + 1
             /\ call'[p].op = "main"
             /\ ~InitFailed(call'[p].log)
      ]_vars

\* init_db has completed in a run of main that started on a store with
\* rows written under an earlier run.
C17_Witness ==
    /\ call[Solo].op = "main"
    /\ pc[Solo] = NInit + 1
    /\ call[Solo].log = <<"init_db">>
    /\ db.users # EmptyTable
    /\ Initialized(db)

\* ------------------------------------------------------------------------
\* Repeated activation (SpecPremium)
\* ------------------------------------------------------------------------
\* C18: the stored expiry of a user is the time of the activation committed
\* last plus its duration, whatever was activated before: a second
\* activate_premium(U, d2) overwrites the expiry of the first, and with a
\* smaller d2 moves it earlier.
C18_ActivationOverwrites ==
    \A u \in UserIds :
        (lastact[u] # << >> /\ Exists(u)) =>
            /\ db.users[u].is_premium
            /\ db.users[u].premium_expires_at # Null
            /\ \E e \in 0..Horizon :
                  /\ db.users[u].premium_expires_at = isoformat(e)
                  /\ e = lastact[u][1] + lastact[u][2] * TicksPerDay

\* A second activation of a user, made later than the first and not yet
\* committed, has written an expiry that is earlier than the one stored by
\* the first.
C18_Witness ==
    LET u == call[Solo].user_id
    IN  /\ call[Solo].op = "activate_premium"
        /\ pc[Solo] = 2
        /\ u \in DOMAIN db.users
        /\ lastact[u] # << >>
        /\ call[Solo].at > lastact[u][1]
        /\ db.users[u].premium_expires_at # Null
        /\ fromisoformat(work.users[u].premium_expires_at)
              < fromisoformat(db.users[u].premium_expires_at)

\* ------------------------------------------------------------------------
\* Referral codes (SpecCreate)
\* ------------------------------------------------------------------------
\* C19: in every state, of the committed store and of an open transaction,
\* every user row carries a referral code and no two rows carry the same
\* one; and get_user_by_referral_code(c) has returned the one user whose code
\* is c, or None when there is none.
C19_CodesUnique ==
    /\ \A d \in {db, work} :
          /\ \A u \in DOMAIN d.users :
                \E n \in Codes : d.users[u].referral_code = <<"REF", n>>
          /\ \A u, v \in DOMAIN d.users :
                d.users[u].referral_code = d.users[v].referral_code => u = v
    /\ ret.call.op = "get_user_by_referral_code" =>
          LET S == {u \in DOMAIN db.users :
                       db.users[u].referral_code = ret.call.referral_code}
          IN  /\ Cardinality(S) <= 1
              /\ ret.value = (IF S = {} THEN Null ELSE <<CHOOSE u \in S : TRUE>>)

\* Two users with different codes are stored, and the lookup of the code of
\* the second one has returned that user.
C19_Witness ==
    /\ ret.call.op = "get_user_by_referral_code"
    /\ ret.value = <<2>>
    /\ DOMAIN db.users = {1, 2}
    /\ db.users[1].referral_code # db.users[2].referral_code

\* ------------------------------------------------------------------------
\* update_user_activity (SpecAccount)
\* ------------------------------------------------------------------------
\* C20: an update_user_activity(U) that returns normally has, for a user
\* with a row, added exactly one to total_sessions and changed no field of
\* the row but total_sessions and last_activity, and has left every other
\* row and table as it was; for an id without a row it has changed nothing
\* and created no row.  The call returns normally unless it is cut off or
\* another connection holds the write lock, and then it changes nothing.
C20_ActivityTouchesTwoFields ==
    [][\A p \in Procs :
          Returns(p, "update_user_activity") =>
            LET u == call[p].user_id
            IN  /\ \/ ret'.outcome = "ok"
                   \/ ret'.outcome = "aborted"
                   \/ ret'.outcome = "OperationalError" /\ lock \notin {0, p}
                /\ (ret'.outcome = "ok" /\ u \in DOMAIN db.users) =>
                      /\ db'.users[u].total_sessions
                            = db.users[u].total_sessions + 1
                      /\ [db'.users[u] EXCEPT !.total_sessions = 0,
                                              !.last_activity = 0]
                            = [db.users[u] EXCEPT !.total_sessions = 0,
                                                  !.last_activity = 0]
                      /\ DOMAIN db'.users = DOMAIN db.users
                      /\ \A v \in (DOMAIN db.users) \ {u} :
                            db'.users[v] = db.users[v]
                      /\ [db' EXCEPT !.users = EmptyTable]
                            = [db EXCEPT !.users = EmptyTable]
                /\ (ret'.outcome = "ok" /\ u \notin DOMAIN db.users) =>
                      db' = db
                /\ ret'.outcome # "ok" => db' = db
      ]_vars

\* update_user_activity has returned normally for a user with a row, whose
\* sessions now count one, while the other id has no row.
C20_Witness ==
    /\ ret.call.op = "update_user_activity"
    /\ ret.outcome = "ok"
    /\ ret.call.user_id \in DOMAIN db.users
    /\ db.users[ret.call.user_id].total_sessions = 1
    /\ DOMAIN db.users = {ret.call.user_id}

\* ------------------------------------------------------------------------
\* delete_subsection (SpecCatalog)
\* ------------------------------------------------------------------------
\* C21: a delete_subsection(X) that returns normally has removed subsection
\* X and every content row with subsection_id = X, and has left every other
\* subsection, every content row with another subsection_id, every section
\* (the parent of X among them) and every other table as they were.
C21_DeleteSubsectionFrame ==
    [][\A p \in Procs :
          (Returns(p, "delete_subsection") /\ ret'.outcome = "ok")
          => LET X == call[p].subsection_id
             IN  /\ X \notin DOMAIN db'.subsections
                 /\ DOMAIN db'.subsections = (DOMAIN db.subsections) \ {X}
                 /\ \A x \in DOMAIN db'.subsections :
                       db'.subsections[x] = db.subsections[x]
                 /\ DOMAIN db'.content \subseteq DOMAIN db.content
                 /\ \A y \in DOMAIN db.content :
                       IF db.content[y].subsection_id = X
                       THEN y \notin DOMAIN db'.content
                       ELSE /\ y \in DOMAIN db'.content
                            /\ db'.content[y] = db.content[y]
                 /\ db'.sections = db.sections
                 /\ [db' EXCEPT !.subsections = EmptyTable,
                                !.content = EmptyTable]
                       = [db EXCEPT !.subsections = EmptyTable,
                                    !.content = EmptyTable]
      ]_vars

\* delete_subsection has executed both its statements on a store that holds
\* the subsection under its section and a content row under the subsection:
\* in its transaction the subsection and the content row are gone and the
\* section is kept.
C21_Witness ==
    \E p \in Procs :
        LET X == call[p].subsection_id
        IN  /\ call[p].op = "delete_subsection"
            /\ pc[p] = 3
            /\ X \in DOMAIN db.subsections
            /\ db.subsections[X].section_id \in DOMAIN db.sections
            /\ ContentOfSubsection(db, X) # {}
            /\ X \notin DOMAIN work.subsections
            /\ ContentOfSubsection(work, X) = {}
            /\ work.sections = db.sections

\* ------------------------------------------------------------------------
\* Users, attempts and referrals (SpecAppend)
\* ------------------------------------------------------------------------
NextAppend ==
    \/ Execute(Solo)
    \/ Commit(Solo)
    \/ Abort(Solo)
    \/ create_quiz(Solo, "korean")
    \/ \E q \in RowIds : delete_quiz(Solo, q)
    \/ \E u \in UserIds :
        \/ create_user(Solo, u, AnyProfile, (u - 1) % CodeSpace)
        \/ update_user_rating(Solo, u, 1)
        \/ \E b \in UserIds : add_referral(Solo, u, b)
        \/ \E q \in RowIds, n \in Points : record_quiz_attempt(Solo, u, q, n, 2)

SpecAppend == Start(AppendCalls) /\ [][NextAppend]_vars

\* The rows of table t of the store d are all in the store e, unchanged.
RowsKept(t, d, e) ==
    \A x \in DOMAIN d[t] : x \in DOMAIN e[t] /\ e[t][x] = d[t][x]

\* C22: no step removes a user row, and no step removes or changes a row of
\* quiz_attempts or of referrals: the set of user ids only grows, and an
\* attempt or a referral, once written, stays as it was written.
C22_NeverRemoved ==
    [][/\ (DOMAIN db.users) \subseteq (DOMAIN db'.users)
       /\ RowsKept("quiz_attempts", db, db')
       /\ RowsKept("referrals", db, db')
      ]_vars

\* delete_quiz has returned for a quiz that an attempt was recorded on, with
\* the attempt, a user and a referral in the store.
C22_Witness ==
    /\ ret.call.op = "delete_quiz"
    /\ ret.outcome = "ok"
    /\ AttemptsOf(db, ret.call.quiz_id) # {}
    /\ db.users # EmptyTable
    /\ db.referrals # EmptyTable

\* ------------------------------------------------------------------------
\* The premium-content catalog
\* ------------------------------------------------------------------------
\* The values a caller can pass: the admitted ones, no value at all, and
\* text outside the enumeration (another case, another word, the empty text).
TrackInputs == {Null} \cup {<<v>> : v \in SectionTypes \cup {"TOPIK1", "hsk"}}

FileInputs == {Null} \cup {<<v>> : v \in FileTypes \cup {"gif", ""}}

ContentIds == {1, 2}

add_premium_content(p, section_type, file_type) ==
    /\ Idle(p)
    /\ Enter(p, [op |-> "add_premium_content", section_type |-> section_type,
                 file_type |-> file_type])

delete_premium_content(p, x) ==
    /\ Idle(p)
    /\ Enter(p, [op |-> "delete_premium_content", content_id |-> x])

NextContent ==
    \/ Execute(Solo) \/ Commit(Solo) \/ Abort(Solo)
    \/ \E s \in TrackInputs, f \in FileInputs : add_premium_content(Solo, s, f)
    \/ \E x \in ContentIds : delete_premium_content(Solo, x)

SpecContent == Start(ContentCalls) /\ [][NextContent]_vars

Admitted(row) ==
    /\ row.section_type # Null
    /\ row.section_type[1] \in {"topik1", "topik2", "jlpt"}
    /\ \/ row.file_type = Null
       \/ row.file_type[1] \in {"photo", "video", "audio", "document", "music",
                                 "text"}

\* C23: every stored premium-content item, committed or not, has a track
\* type in {topik1, topik2, jlpt} and a file type that is absent or in
\* {photo, video, audio, document, music, text}; add_premium_content with
\* any other track type or file type ends with IntegrityError and leaves the
\* store as it was.
C23_ContentChecked ==
    /\ [](\A d \in {db, work} : \A x \in DOMAIN d.premium_content :
            Admitted(d.premium_content[x]))
    /\ [][\A p \in Procs :
            Returns(p, "add_premium_content") /\ ~Admitted(call[p])
                => /\ ret'.outcome = "IntegrityError"
                   /\ db' = db
                   /\ work' = db]_vars

\* A call with a file type outside the enumeration was rejected while the
\* catalog held an item, and a stored item has no file type.
C23_Witness ==
    /\ ret.call.op = "add_premium_content"
    /\ ret.outcome = "IntegrityError"
    /\ ret.call.section_type = <<"jlpt">>
    /\ ret.call.file_type = <<"gif">>
    /\ \E x \in DOMAIN db.premium_content :
            db.premium_content[x].file_type = Null

\* ------------------------------------------------------------------------
\* The admin statistics
\* ------------------------------------------------------------------------
\* SELECT COUNT(*) FROM tbl
select_count(tbl) == Cardinality(DOMAIN tbl)

count_every_user(users) == Cardinality(DOMAIN users)

\* SELECT COUNT(*) FROM users WHERE is_premium = TRUE
select_count_premium(users) ==
    Cardinality({u \in DOMAIN users : users[u].is_premium = TRUE})

RECURSIVE SumOf(_, _, _)
SumOf(tbl, col, ids) ==
    IF ids = {} THEN 0
    ELSE LET x == CHOOSE x \in ids : TRUE
         IN  tbl[x][col] + SumOf(tbl, col, ids \ {x})

\* SELECT SUM(col) FROM tbl: NULL over no rows.
select_sum(tbl, col) ==
    IF DOMAIN tbl = {} THEN Null ELSE <<SumOf(tbl, col, DOMAIN tbl)>>

\* result[0] if result[0] else 0
or_zero(result) == IF result = Null \/ result[1] = 0 THEN 0 ELSE result[1]

\* The dictionary get_admin_statistics builds from its nine SELECTs on a
\* new connection, which reads the committed store d.
stats(d) ==
    [total_users |-> select_count(d.users),
     premium_users |-> select_count_premium(d.users),
     total_sections |-> select_count(d.sections),
     total_content |-> select_count(d.content),
     total_quizzes |-> select_count(d.quizzes),
     total_questions |-> select_count(d.questions),
     total_quiz_attempts |-> select_count(d.quiz_attempts),
     total_sessions |-> or_zero(select_sum(d.users, "total_sessions")),
     total_words_learned |-> or_zero(select_sum(d.users, "words_learned"))]

get_admin_statistics(p) ==
    Read(p, [op |-> "get_admin_statistics"], stats(db))

NextStats ==
    \/ Execute(Solo) \/ Commit(Solo)
    \/ get_admin_statistics(Solo)
    \/ create_section(Solo, "korean", FALSE)
    \/ create_quiz(Solo, "korean")
    \/ \E s \in RowIds : add_content(Solo, s, NullId)
    \/ \E q \in RowIds : add_question(Solo, q)
    \/ \E u \in UserIds :
        \/ create_user(Solo, u, AnyProfile, (u - 1) % CodeSpace)
        \/ activate_premium(Solo, u, 1)
        \/ update_user_activity(Solo, u)
        \/ update_words_learned(Solo, u, 1)
        \/ \E q \in RowIds : record_quiz_attempt(Solo, u, q, 1, 2)

SpecStats == Start(StatsCalls) /\ [][NextStats]_vars

\* The sum of a counter over the user rows.
Total(users, col) ==
    LET f[S \in SUBSET DOMAIN users] ==
            IF S = {} THEN 0
            ELSE LET u == CHOOSE u \in S : TRUE
                 IN  users[u][col] + f[S \ {u}]
    IN  f[DOMAIN users]

\* C24: a get_admin_statistics call made while no other call is in progress
\* changes nothing in the store, and its figures are the row counts of
\* users, sections, content, quizzes, questions and quiz_attempts, the
\* number of users with the premium flag set, and the sums of total_sessions
\* and words_learned over the users (0 without users).
C24_StatsAreAggregates ==
    [][ReadsOk("get_admin_statistics")
        => /\ db' = db /\ work' = work /\ work = db
           /\ LET v == ret'.value
              IN  /\ v.total_users = Cardinality(DOMAIN db.users)
                  /\ v.premium_users =
                        Cardinality({u \in DOMAIN db.users : db.users[u].is_premium})
                  /\ v.total_sections = Cardinality(DOMAIN db.sections)
                  /\ v.total_content = Cardinality(DOMAIN db.content)
                  /\ v.total_quizzes = Cardinality(DOMAIN db.quizzes)
                  /\ v.total_questions = Cardinality(DOMAIN db.questions)
                  /\ v.total_quiz_attempts = Cardinality(DOMAIN db.quiz_attempts)
                  /\ v.total_sessions = Total(db.users, "total_sessions")
                  /\ v.total_words_learned = Total(db.users, "words_learned")
                  /\ (DOMAIN db.users = {}
                        => v.total_sessions = 0 /\ v.total_words_learned = 0)]_vars

\* The statistics were read from a store with two users, one of them premium.
C24_Witness ==
    /\ ret.call.op = "get_admin_statistics"
    /\ ret.outcome = "ok"
    /\ ret.value.total_users = 2
    /\ ret.value.premium_users = 1

\* ------------------------------------------------------------------------
\* The quiz counters of a user and the attempt rows
\* ------------------------------------------------------------------------
AttemptsBy(d, u) ==
    {a \in DOMAIN d.quiz_attempts : d.quiz_attempts[a].user_id = u}

ScoreOf(d, u) ==
    LET f[S \in SUBSET AttemptsBy(d, u)] ==
            IF S = {} THEN 0
            ELSE LET a == CHOOSE a \in S : TRUE
                 IN  d.quiz_attempts[a].score + f[S \ {a}]
    IN  f[AttemptsBy(d, u)]

\* C25: in every committed state, for every existing user U, U's
\* quiz_attempts is the number of quiz_attempts rows with user_id = U and
\* U's quiz_score_total is the sum of their scores, in whatever order
\* create_user and record_quiz_attempt were called.
C25_AttemptCounters ==
    \A u \in DOMAIN db.users :
        /\ db.users[u].quiz_attempts = Cardinality(AttemptsBy(db, u))
        /\ db.users[u].quiz_score_total = ScoreOf(db, u)

\* ------------------------------------------------------------------------
\* The premium user count
\* ------------------------------------------------------------------------
\* result[0] of SELECT COUNT(*) FROM users WHERE is_premium = TRUE; the
\* time of the call is recorded with it.
get_premium_user_count(p) ==
    Read(p, [op |-> "get_premium_user_count", at |-> now],
         select_count_premium(db.users))

NextCount ==
    \/ Tick
    \/ Execute(Solo)
    \/ Commit(Solo)
    \/ get_premium_user_count(Solo)
    \/ get_admin_statistics(Solo)
    \/ \E u \in UserIds :
        \/ create_user(Solo, u, AnyProfile, (u - 1) % CodeSpace)
        \/ \E d \in Durations : activate_premium(Solo, u, d)
        \/ revoke_premium(Solo, u)

SpecCount == Start(CountCalls) /\ [][NextCount]_vars

ActiveUsers(d, t) == {u \in UserIds : is_premium_active(d, u, t)}

\* C26: whenever it is evaluated, get_premium_user_count() and the
\* premium_users figure of get_admin_statistics() are the number of users
\* for whom is_premium_active is true at that time, also after a premium
\* has expired without revoke_premium.
C26_CountIsActive ==
    [][/\ ReadsOk("get_premium_user_count")
            => ret'.value = Cardinality(ActiveUsers(db, now))
       /\ ReadsOk("get_admin_statistics")
            => ret'.value.premium_users = Cardinality(ActiveUsers(db, now))]_vars

\* ------------------------------------------------------------------------
\* Updates of a user that does not exist
\* ------------------------------------------------------------------------
NextAbsent ==
    \/ Execute(Solo)
    \/ Commit(Solo)
    \/ \E u \in UserIds :
        \/ create_user(Solo, u, AnyProfile, (u - 1) % CodeSpace)
        \/ \E d \in Durations : activate_premium(Solo, u, d)
        \/ revoke_premium(Solo, u)
        \/ \E n \in Points : update_user_rating(Solo, u, n)
        \/ \E n \in Points : update_words_learned(Solo, u, n)
        \/ update_referral_count(Solo, u)
        \/ reset_referral_count(Solo, u)
        \/ check_premium(Solo, u)

SpecAbsent == Start(AbsentCalls) /\ [][NextAbsent]_vars

UserUpdates ==
    {"activate_premium", "revoke_premium", "update_user_rating",
     "update_words_learned", "update_referral_count", "reset_referral_count"}

\* C27: activate_premium, revoke_premium, update_user_rating,
\* update_words_learned, update_referral_count and reset_referral_count for
\* a user id without a row return normally, create no row and leave every
\* table as it was; is_premium_active of an id without a row is false, also
\* after activate_premium for that id.
C27_AbsentUserUntouched ==
    [][/\ \A p \in Procs, op \in UserUpdates :
            Returns(p, op) /\ call[p].user_id \notin DOMAIN db.users
                => /\ ret'.outcome = "ok"
                   /\ call[p].user_id \notin DOMAIN db'.users
                   /\ db' = db
       /\ ReadsOk("is_premium_active")
            /\ ret'.call.user_id \notin DOMAIN db.users
                => ret'.value = FALSE]_vars

\* activate_premium returned normally for an id that has no row, while
\* another user exists, and the id still has no row.
C27_Witness ==
    /\ ret.call.op = "activate_premium"
    /\ ret.outcome = "ok"
    /\ ret.call.duration_days > 0
    /\ ret.call.user_id \notin DOMAIN db.users
    /\ ~is_premium_active(db, ret.call.user_id, now)
    /\ db.users # EmptyTable
====
